---------------------------- MODULE Spec2Model ----------------------------
(***************************************************************************)
(* Model of the Flask text-to-speech facade of DAY-2/app.py: the process-  *)
(* wide auth token cache, the POST /tts request translator and the         *)
(* ancillary endpoints.  Python dicts are functions over their keys, the   *)
(* strings the code transforms (text, format) are sequences of characters. *)
(***************************************************************************)
EXTENDS Integers, Sequences, FiniteSets, TLC

VARIABLES
    MURF_API_KEY,          \* os.getenv('MURF_API_KEY'): None or a string, fixed at start-up
    json_error_is_request_exception,
                           \* the installed requests library: TRUE when Response.json()
                           \* raises requests.exceptions.JSONDecodeError (a RequestException,
                           \* requests >= 2.27), FALSE when it raises a plain ValueError
    auth_token_cache,      \* [token, expires_at]
    now,                   \* the wall clock, epoch milliseconds
    request,               \* the inbound request handled last: [endpoint, data]
    response,              \* what it was answered: [status, body]
    upstream,              \* the upstream calls it issued, in order, each with its reply
    auth_calls,            \* per server thread, where its get_murf_auth_token call stands
    token_response         \* the parsed auth response the cached token was taken from

vars == <<MURF_API_KEY, json_error_is_request_exception, auth_token_cache, now,
          request, response, upstream, auth_calls, token_response>>

---------------------------------------------------------------------------
(* Python values *)

\* Python's None, among string values
None == "<None>"

\* bool(v) of a string-or-None value: None and '' are falsy
Truthy(v) == v \notin {None, ""}

\* x or y
PyOr(x, y) == IF Truthy(x) THEN x ELSE y

\* d.get(k, default)
Get(d, k, default) == IF k \in DOMAIN d THEN d[k] ELSE default

\* the dict {} (and what `not data` accepts)
EmptyDict == <<>>

\* str.strip(): the characters str.strip() removes among those of the model
Whitespace == {" ", "\t"}

RECURSIVE LStrip(_)
LStrip(s) == IF s # <<>> /\ Head(s) \in Whitespace THEN LStrip(Tail(s)) ELSE s

RECURSIVE RStrip(_)
RStrip(s) ==
    IF s # <<>> /\ s[Len(s)] \in Whitespace THEN RStrip(SubSeq(s, 1, Len(s) - 1)) ELSE s

Strip(s) == RStrip(LStrip(s))

\* str.upper(), on the letters of the model's formats
UpperChar(c) ==
    CASE c = "a" -> "A" [] c = "m" -> "M" [] c = "p" -> "P"
      [] c = "v" -> "V" [] c = "w" -> "W" [] OTHER -> c

Upper(s) == [i \in DOMAIN s |-> UpperChar(s[i])]

---------------------------------------------------------------------------
(* Configuration *)

MURF_API_URL == "https://api.murf.ai/v1/speech/generate"
MURF_AUTH_URL == "https://api.murf.ai/v1/auth/token"
MURF_VOICES_URL == "https://api.murf.ai/v1/speech/voices"

\* the 1 minute buffer of the cached-token check
ExpiryBufferMs == 60000

---------------------------------------------------------------------------
(* The upstream provider: what one call can come back with.  A reply is     *)
(* either an exception raised by requests (no response was received) or a   *)
(* response with a status code and a body.  A body is the raw text; it      *)
(* parses as JSON when json_type is "object" (members: the dict) or "array" *)
(* (members: the list), and not at all when json_type is "none".            *)

Raised(exc) == [raised |-> exc]
Responded(status_code, body) == [status_code |-> status_code, text |-> body]
IsRaised(reply) == "raised" \in DOMAIN reply

NotJsonBody == [json_type |-> "none", members |-> <<>>]
ObjectBody(members) == [json_type |-> "object", members |-> members]
ArrayBody(items) == [json_type |-> "array", members |-> items]

\* requests.post / requests.get raising: no response was received
TransportErrors == {Raised("ConnectionError"), Raised("Timeout")}

\* Response.json() succeeds
ParsesAsJson(body) == body.json_type # "none"

\* Response.json(), when it succeeds
JsonOf(body) == body.members

\* all dicts with at most the given optional members: Opt(k, Vals) is k absent or k with a value
Opt(k, Vals) == {EmptyDict} \cup {k :> v : v \in Vals}

---------------------------------------------------------------------------
(* Exceptions and responses *)

\* isinstance(e, requests.RequestException), by the exception's class
IsRequestException(exc) ==
    \/ exc \in {"ConnectionError", "Timeout"}
    \/ exc = "JSONDecodeError" /\ json_error_is_request_exception

\* jsonify(body), status
JsonResponse(status, body) == [status |-> status, body |-> body]

\* what a handler run leaves: its response and the upstream calls it issued
Handled(resp, calls) == [response |-> resp, upstream |-> calls]

\* one upstream call with the reply it got
Call(method, url, headers, payload, reply) ==
    [method |-> method, url |-> url, headers |-> headers, json |-> payload, reply |-> reply]

\* datetime.now().isoformat()
IsoFormat(t) == <<"isoformat", t>>

---------------------------------------------------------------------------
(* POST /tts: text_to_speech *)

DefaultVoiceId == "en-US-ken"
DefaultFormat == <<"M", "P", "3">>

\* variant: the key test as `MURF_API_KEY is None`
KeyIsNone == MURF_API_KEY = None

\* `not MURF_API_KEY`
KeyMissing == ~Truthy(MURF_API_KEY)

\* `not data or 'text' not in data`
TextMissing(data) == DOMAIN data = {} \/ "text" \notin DOMAIN data

\* variant: the emptiness test without the strip()
TextBlankNoStrip(text_input) == text_input = <<>>

\* `not text_input.strip()`
TextBlank(text_input) == Strip(text_input) = <<>>

\* variant: the rate clamped into [-50, 50]
SpeechRateClamped(data) ==
    LET r == Get(data, "speech_rate", 0)
    IN  IF r > 50 THEN 50 ELSE IF r < -50 THEN -50 ELSE r

\* data.get('speech_rate', 0)
SpeechRate(data) == Get(data, "speech_rate", 0)

\* variant: the synthesis call authenticated with the cached token
TtsHeadersBearer ==
    ("Authorization" :> auth_token_cache.token) @@ ("Content-Type" :> "application/json")
        @@ ("Accept" :> "application/json")

\* headers: the static API key
TtsHeaders ==
    ("api-key" :> MURF_API_KEY) @@ ("Content-Type" :> "application/json")
        @@ ("Accept" :> "application/json")

MurfPayload(data) ==
    [text |-> data["text"],
     voiceId |-> Get(data, "voice_id", DefaultVoiceId),
     audioFormat |-> Upper(Get(data, "format", DefaultFormat)),
     modelVersion |-> "GEN2",
     rate |-> SpeechRate(data),
     channelType |-> "STEREO"]

\* variant: the candidate fields tried in the opposite order
ExtractAudioUrlReversed(murf_data) ==
    PyOr(PyOr(Get(murf_data, "url", None), Get(murf_data, "audio_url", None)),
         Get(murf_data, "audioFile", None))

\* murf_data.get('audioFile') or murf_data.get('audio_url') or murf_data.get('url')
ExtractAudioUrl(murf_data) ==
    PyOr(PyOr(Get(murf_data, "audioFile", None), Get(murf_data, "audio_url", None)),
         Get(murf_data, "url", None))

ConfigurationErrorBody ==
    [error |-> <<"Murf API key not configured. Please set MURF_API_KEY environment variable.">>,
     success |-> FALSE]

MissingTextBody ==
    [error |-> <<"Missing required field: text">>,
     success |-> FALSE,
     expected_format |->
        [text |-> "Your text to convert to speech",
         voice_id |-> "en-US-ken (optional)",
         format |-> "mp3 (optional)",
         speech_rate |-> "0 (optional, -50 to 50)"]]

EmptyTextBody == [error |-> <<"Text cannot be empty">>, success |-> FALSE]

\* the `except requests.RequestException` and `except Exception` handlers
TtsExceptionResponse(exc) ==
    IF IsRequestException(exc)
    THEN JsonResponse(500, [error |-> <<"Network error calling Murf API: ", exc>>,
                            success |-> FALSE])
    ELSE JsonResponse(500, [error |-> <<"Server error: ", exc>>, success |-> FALSE])

\* variant: the status 200 branch without the `if audio_url` test
TtsAudioResponseUnchecked(text_input, murf_payload, murf_data) ==
    JsonResponse(200,
        [success |-> TRUE,
         audio_url |-> ExtractAudioUrl(murf_data),
         text_processed |-> text_input,
         voice_used |-> murf_payload.voiceId,
         format |-> murf_payload.audioFormat,
         timestamp |-> IsoFormat(now),
         characters_used |-> Get(murf_data, "charactersUsed", 0),
         murf_response |-> murf_data])

\* the status 200 branch, once the body is parsed into the dict murf_data
TtsAudioResponse(text_input, murf_payload, murf_data) ==
    LET audio_url == ExtractAudioUrl(murf_data)
    IN  IF Truthy(audio_url)
        THEN JsonResponse(200,
                [success |-> TRUE,
                 audio_url |-> audio_url,
                 text_processed |-> text_input,
                 voice_used |-> murf_payload.voiceId,
                 format |-> murf_payload.audioFormat,
                 timestamp |-> IsoFormat(now),
                 characters_used |-> Get(murf_data, "charactersUsed", 0),
                 murf_response |-> murf_data])
        ELSE JsonResponse(500,
                [error |-> <<"Audio URL not found in Murf response">>,
                 success |-> FALSE,
                 murf_response |-> murf_data])

\* error_details: response.json() when the body parses, response.text otherwise
ErrorDetails(reply) == IF ParsesAsJson(reply.text) THEN JsonOf(reply.text) ELSE reply.text

\* variant: every upstream error answered as an internal error
ErrorStatusInternal(reply) == 500

\* the status code the error response is sent with
ErrorStatus(reply) == reply.status_code

\* the non-200 branch
TtsUpstreamErrorResponse(murf_payload, reply) ==
    JsonResponse(ErrorStatus(reply),
        [error |-> <<"Murf API error: ", reply.status_code>>,
         success |-> FALSE,
         details |-> ErrorDetails(reply),
         status_code |-> reply.status_code,
         request_payload |-> murf_payload,
         suggestion |->
            "Try using a valid voice ID like: en-US-ken, en-US-sarah, en-US-laura, en-US-wayne"])

\* what follows requests.post returning `reply`
TtsReplyResponse(text_input, murf_payload, reply) ==
    IF IsRaised(reply) THEN TtsExceptionResponse(reply.raised)
    ELSE IF reply.status_code = 200
    THEN IF ~ParsesAsJson(reply.text) THEN TtsExceptionResponse("JSONDecodeError")
         ELSE IF reply.text.json_type # "object" THEN TtsExceptionResponse("AttributeError")
         ELSE TtsAudioResponse(text_input, murf_payload, JsonOf(reply.text))
    ELSE TtsUpstreamErrorResponse(murf_payload, reply)

\* the handler on body `data`, the upstream answering `reply` if it is called
TtsHandler(data, reply) ==
    IF KeyMissing THEN Handled(JsonResponse(500, ConfigurationErrorBody), <<>>)
    ELSE IF TextMissing(data) THEN Handled(JsonResponse(400, MissingTextBody), <<>>)
    ELSE IF TextBlank(data["text"]) THEN Handled(JsonResponse(400, EmptyTextBody), <<>>)
    ELSE LET murf_payload == MurfPayload(data)
         IN  Handled(TtsReplyResponse(data["text"], murf_payload, reply),
                     <<Call("POST", MURF_API_URL, TtsHeaders, murf_payload, reply)>>)

text_to_speech(data, reply) ==
    LET done == TtsHandler(data, reply)
    IN  /\ request' = [endpoint |-> "POST /tts", data |-> data]
        /\ response' = done.response
        /\ upstream' = done.upstream
        /\ UNCHANGED <<auth_calls, token_response, MURF_API_KEY, json_error_is_request_exception, auth_token_cache, now>>

---------------------------------------------------------------------------
(* The token cache: get_murf_auth_token *)

\* variant: the cached-token test without the strictness of `>`
CacheFreshInclusive(cache, current_time) ==
    Truthy(cache.token) /\ cache.expires_at >= current_time + ExpiryBufferMs

\* `auth_token_cache['token'] and auth_token_cache['expires_at'] > current_time + 60000`
CacheFresh(cache, current_time) ==
    Truthy(cache.token) /\ cache.expires_at > current_time + ExpiryBufferMs

AuthHeaders == ("api-key" :> MURF_API_KEY) @@ ("Content-Type" :> "application/json")

\* what a get_murf_auth_token run leaves: its return value, the cache, its upstream calls
AuthResult(token, cache, calls) == [token |-> token, cache |-> cache, upstream |-> calls]

\* variant: a failed refresh drops the cached token
AuthFailedClearing(cache, call) ==
    AuthResult(None, [token |-> None, expires_at |-> 0], <<call>>)

\* variant: a failed refresh is tried a second time
AuthFailedRetrying(cache, call) == AuthResult(None, cache, <<call, call>>)

\* the `return None` of the non-200 branch and of the exception handler
AuthFailed(cache, call) == AuthResult(None, cache, <<call>>)

\* the status 200 branch: the two cache assignments and the return
AuthStored(token_data, call) ==
    LET stored == [token |-> Get(token_data, "token", None),
                   expires_at |-> Get(token_data, "expiryInEpochMillis", 0)]
    IN  AuthResult(stored.token, stored, <<call>>)

\* the reply takes get_murf_auth_token into the status 200 branch and through its
\* token_data.get calls
StoresToken(reply) ==
    ~IsRaised(reply) /\ reply.status_code = 200 /\ reply.text.json_type = "object"

\* get_murf_auth_token() at time current_time, the upstream answering `reply` if called
GetMurfAuthToken(cache, current_time, reply) ==
    IF CacheFresh(cache, current_time) THEN AuthResult(cache.token, cache, <<>>)
    ELSE LET call == Call("POST", MURF_AUTH_URL, AuthHeaders, None, reply)
         IN  IF IsRaised(reply) THEN AuthFailed(cache, call)
             ELSE IF reply.status_code = 200
             THEN IF reply.text.json_type # "object" THEN AuthFailed(cache, call)
                  ELSE AuthStored(JsonOf(reply.text), call)
             ELSE AuthFailed(cache, call)

---------------------------------------------------------------------------
(* GET /tts/auth-test: test_auth *)

\* f"{auth_token[:10]}...{auth_token[-10:]}", for a token of at most 10 characters
TokenPreview(auth_token) == <<auth_token, "...", auth_token>>

\* what test_auth answers once get_murf_auth_token has returned auth_token, the cache
\* then holding the expiry expires_at
AuthTestResponse(auth_token, expires_at) ==
    IF Truthy(auth_token)
    THEN JsonResponse(200, [success |-> TRUE,
                            message |-> "Authentication successful",
                            token_preview |-> TokenPreview(auth_token),
                            expires_at |-> expires_at])
    ELSE JsonResponse(401, [success |-> FALSE,
                            error |-> <<"Failed to authenticate with Murf API">>])

AuthTestHandler(reply) ==
    IF KeyMissing
    THEN [response |-> JsonResponse(500, [error |-> <<"Murf API key not configured">>,
                                          success |-> FALSE]),
          upstream |-> <<>>, cache |-> auth_token_cache]
    ELSE LET got == GetMurfAuthToken(auth_token_cache, now, reply)
         IN  [response |-> AuthTestResponse(got.token, got.cache.expires_at),
              upstream |-> got.upstream, cache |-> got.cache]

test_auth(reply) ==
    LET done == AuthTestHandler(reply)
    IN  /\ request' = [endpoint |-> "GET /tts/auth-test", data |-> EmptyDict]
        /\ response' = done.response
        /\ upstream' = done.upstream
        /\ auth_token_cache' = done.cache
        /\ token_response' =
              IF done.upstream # <<>> /\ StoresToken(reply) THEN JsonOf(reply.text)
              ELSE token_response
        /\ UNCHANGED <<auth_calls, MURF_API_KEY, json_error_is_request_exception, now>>

---------------------------------------------------------------------------
(* GET /tts/voices: get_voices *)

VoicesHeaders == ("api-key" :> MURF_API_KEY) @@ ("Accept" :> "application/json")

\* len(voices_data) if isinstance(voices_data, list) else 'unknown'
VoicesCount(body) == IF body.json_type = "array" THEN <<Len(body.members)>> ELSE <<"unknown">>

VoicesReplyResponse(reply) ==
    IF IsRaised(reply)
    THEN JsonResponse(500, [success |-> FALSE,
                            error |-> <<"Error fetching voices: ", reply.raised>>])
    ELSE IF reply.status_code = 200
    THEN IF ~ParsesAsJson(reply.text)
         THEN JsonResponse(500, [success |-> FALSE,
                                 error |-> <<"Error fetching voices: ", "JSONDecodeError">>])
         ELSE JsonResponse(200, [success |-> TRUE, voices |-> JsonOf(reply.text),
                                 count |-> VoicesCount(reply.text)])
    ELSE JsonResponse(reply.status_code,
            [success |-> FALSE,
             error |-> <<"Failed to fetch voices: ", reply.status_code>>,
             details |-> reply.text])

VoicesHandler(reply) ==
    IF KeyMissing
    THEN Handled(JsonResponse(500, [error |-> <<"API key not configured">>,
                                    success |-> FALSE]), <<>>)
    ELSE Handled(VoicesReplyResponse(reply),
                 <<Call("GET", MURF_VOICES_URL, VoicesHeaders, None, reply)>>)

get_voices(reply) ==
    LET done == VoicesHandler(reply)
    IN  /\ request' = [endpoint |-> "GET /tts/voices", data |-> EmptyDict]
        /\ response' = done.response
        /\ upstream' = done.upstream
        /\ UNCHANGED <<auth_calls, token_response, MURF_API_KEY, json_error_is_request_exception, auth_token_cache, now>>

---------------------------------------------------------------------------
(* The endpoints that call nothing *)

\* GET /tts/key-test; the key's format, length and preview are left out of the body
test_api_key ==
    /\ request' = [endpoint |-> "GET /tts/key-test", data |-> EmptyDict]
    /\ response' =
          IF KeyMissing
          THEN JsonResponse(200, [error |-> <<"API key not configured">>, success |-> FALSE])
          ELSE JsonResponse(200, [success |-> TRUE,
                                  message |-> "API key configuration looks good"])
    /\ upstream' = <<>>
    /\ UNCHANGED <<auth_calls, token_response, MURF_API_KEY, json_error_is_request_exception, auth_token_cache, now>>

\* GET /tts/test; of the fixed descriptor, the fields that say what the service is
test_tts_endpoint ==
    /\ request' = [endpoint |-> "GET /tts/test", data |-> EmptyDict]
    /\ response' = JsonResponse(200, [message |-> "TTS endpoint is active",
                                      status |-> "success",
                                      api_key_configured |-> Truthy(MURF_API_KEY)])
    /\ upstream' = <<>>
    /\ UNCHANGED <<auth_calls, token_response, MURF_API_KEY, json_error_is_request_exception, auth_token_cache, now>>

\* GET /health
health_check ==
    /\ request' = [endpoint |-> "GET /health", data |-> EmptyDict]
    /\ response' = JsonResponse(200, [status |-> "healthy", timestamp |-> IsoFormat(now)])
    /\ upstream' = <<>>
    /\ UNCHANGED <<auth_calls, token_response, MURF_API_KEY, json_error_is_request_exception, auth_token_cache, now>>

\* GET /docs
api_documentation ==
    /\ request' = [endpoint |-> "GET /docs", data |-> EmptyDict]
    /\ response' = JsonResponse(200, [title |-> "Flask TTS API Documentation",
                                      version |-> "1.0.0"])
    /\ upstream' = <<>>
    /\ UNCHANGED <<auth_calls, token_response, MURF_API_KEY, json_error_is_request_exception, auth_token_cache, now>>

\* GET /
index ==
    /\ request' = [endpoint |-> "GET /", data |-> EmptyDict]
    /\ response' = JsonResponse(200, [template |-> "index.html"])
    /\ upstream' = <<>>
    /\ UNCHANGED <<auth_calls, token_response, MURF_API_KEY, json_error_is_request_exception, auth_token_cache, now>>

---------------------------------------------------------------------------
(* The inputs of POST /tts *)

MaxTextLen == 2
TextChars == {" ", "\t", "a"}
Texts == UNION {[1..n -> TextChars] : n \in 0..MaxTextLen}

VoiceIds == {"en-GB-daniel"}
Formats == {<<"w", "a", "v">>, <<"M", "p", "3">>}
SpeechRates == {-51, -50, 0, 50, 51}

\* JSON bodies of a request: {} (or no body), and every choice of the optional fields
TtsRequests ==
    {t @@ v @@ f @@ r : t \in Opt("text", Texts), v \in Opt("voice_id", VoiceIds),
                        f \in Opt("format", Formats), r \in Opt("speech_rate", SpeechRates)}

\* bodies the synthesis endpoint answers with
SynthesisBodies ==
    {NotJsonBody, ArrayBody(<<>>)} \cup
    {ObjectBody(a @@ b @@ c @@ n) :
        a \in Opt("audioFile", {"", "https://x/a.mp3"}),
        b \in Opt("audio_url", {"", "https://x/b.mp3"}),
        c \in Opt("url", {"", "https://x/c.mp3"}),
        n \in Opt("charactersUsed", {42})}

\* bodies it sends with an error status
ErrorBodies == {NotJsonBody, ObjectBody(EmptyDict), ObjectBody("errorMessage" :> "Invalid voice")}

ErrorStatuses == {400, 429, 500}

TtsReplies ==
    TransportErrors \cup {Responded(200, b) : b \in SynthesisBodies}
        \cup {Responded(s, b) : s \in ErrorStatuses, b \in ErrorBodies}

---------------------------------------------------------------------------
(* Start-up *)

ApiKeys == {None, "", "ap2_key"}

\* the server's request threads (app.run serves each request in a thread of its own),
\* and a thread that is not inside get_murf_auth_token
NumThreads == 2
Threads == 1..NumThreads
Idle == [pc |-> "idle", reply |-> Raised("none")]

\* no request handled yet
NoRequest == [endpoint |-> "none", data |-> EmptyDict]
NoResponse == JsonResponse(0, EmptyDict)

Init ==
    /\ MURF_API_KEY \in ApiKeys
    /\ json_error_is_request_exception \in BOOLEAN
    /\ auth_token_cache = [token |-> None, expires_at |-> 0]
    /\ now = 0
    /\ request = NoRequest
    /\ response = NoResponse
    /\ upstream = <<>>
    /\ auth_calls = [t \in Threads |-> Idle]
    /\ token_response = EmptyDict

---------------------------------------------------------------------------
(* The whole service: requests arrive one at a time at any endpoint, and    *)
(* the clock advances between them.                                         *)

\* the clock moves in steps of half the expiry buffer, MaxTicks times
TickMs == ExpiryBufferMs \div 2
MaxTicks == 4

Tick ==
    /\ now < MaxTicks * TickMs
    /\ now' = now + TickMs
    /\ UNCHANGED <<auth_calls, token_response, MURF_API_KEY, json_error_is_request_exception, auth_token_cache,
                   request, response, upstream>>

\* what the auth endpoint answers at time t: a token that expires up to MaxTtlTicks
\* clock steps later, a body without token or expiry, a body that is no JSON object,
\* or an error status
Tokens == {"tokA", "tokB"}
MaxTtlTicks == 4

AuthReplies(t) ==
    TransportErrors
        \cup {Responded(200, NotJsonBody), Responded(200, ArrayBody(<<>>))}
        \cup {Responded(200, ObjectBody(tok @@ exp)) :
                tok \in Opt("token", Tokens),
                exp \in Opt("expiryInEpochMillis", {t + k * TickMs : k \in 1..MaxTtlTicks})}
        \cup {Responded(401, NotJsonBody), Responded(500, NotJsonBody)}

VoicesReplies ==
    TransportErrors
        \cup {Responded(200, b) : b \in {NotJsonBody, ArrayBody(<<"en-US-ken", "en-US-sarah">>),
                                         ObjectBody(EmptyDict)}}
        \cup {Responded(s, NotJsonBody) : s \in ErrorStatuses}

\* POST /tts in the whole service: the bodies with no optional field and a text of at
\* most one character, the replies with at most one member (SpecSynth has them all)
ServiceTtsRequests ==
    {d \in TtsRequests : DOMAIN d \subseteq {"text"} /\ (DOMAIN d # {} => Len(d["text"]) <= 1)}

ServiceTtsReplies ==
    {r \in TtsReplies : IsRaised(r) \/ Cardinality(DOMAIN r.text.members) <= 1}

Next ==
    \/ Tick
    \/ \E reply \in AuthReplies(now) : test_auth(reply)
    \/ \E reply \in VoicesReplies : get_voices(reply)
    \/ \E data \in ServiceTtsRequests, reply \in ServiceTtsReplies : text_to_speech(data, reply)
    \/ test_api_key
    \/ test_tts_endpoint
    \/ health_check
    \/ api_documentation
    \/ index

Spec == Init /\ [][Next]_vars

---------------------------------------------------------------------------
(* GET /tts/auth-test served by concurrent threads.  Nothing locks the      *)
(* cache, so a get_murf_auth_token call is three steps, between which the   *)
(* other threads run: the cached-token test (lines 51-56); the reply of the *)
(* auth request with, on a 200, the assignment of line 70; the assignment   *)
(* of line 71 with the return.  The reads of one step are taken together.   *)

\* test_auth up to the cached-token test: answered at once without a key or with a
\* fresh token, otherwise the auth request is sent
AuthBegin(t) ==
    /\ auth_calls[t].pc = "idle"
    /\ IF KeyMissing \/ CacheFresh(auth_token_cache, now)
       THEN LET done == AuthTestHandler(Raised("none"))
            IN  /\ request' = [endpoint |-> "GET /tts/auth-test", data |-> EmptyDict]
                /\ response' = done.response
                /\ upstream' = done.upstream
                /\ UNCHANGED auth_calls
       ELSE /\ auth_calls' = [auth_calls EXCEPT ![t] = [pc |-> "posting",
                                                         reply |-> Raised("none")]]
            /\ UNCHANGED <<request, response, upstream>>
    /\ UNCHANGED <<token_response, MURF_API_KEY, json_error_is_request_exception,
                   auth_token_cache, now>>

\* auth_token_cache['token'] = token_data.get('token')
TokenAssigned(cache, token_data) == [cache EXCEPT !.token = Get(token_data, "token", None)]

\* requests.post returns or raises: a failure is answered 401, a 200 goes on to line 70
AuthReceive(t, reply) ==
    /\ auth_calls[t].pc = "posting"
    /\ IF StoresToken(reply)
       THEN /\ auth_token_cache' = TokenAssigned(auth_token_cache, JsonOf(reply.text))
            /\ token_response' = JsonOf(reply.text)
            /\ auth_calls' = [auth_calls EXCEPT ![t] = [pc |-> "store_expiry",
                                                         reply |-> reply]]
            /\ UNCHANGED <<request, response, upstream>>
       ELSE LET got == AuthFailed(auth_token_cache,
                                  Call("POST", MURF_AUTH_URL, AuthHeaders, None, reply))
            IN  /\ request' = [endpoint |-> "GET /tts/auth-test", data |-> EmptyDict]
                /\ response' = AuthTestResponse(got.token, got.cache.expires_at)
                /\ upstream' = got.upstream
                /\ auth_calls' = [auth_calls EXCEPT ![t] = Idle]
                /\ UNCHANGED <<auth_token_cache, token_response>>
    /\ UNCHANGED <<MURF_API_KEY, json_error_is_request_exception, now>>

\* auth_token_cache['expires_at'] = token_data.get('expiryInEpochMillis', 0), then
\* `return auth_token_cache['token']` and the answer of test_auth
AuthStoreExpiry(t) ==
    /\ auth_calls[t].pc = "store_expiry"
    /\ LET reply == auth_calls[t].reply
           expires_at == Get(JsonOf(reply.text), "expiryInEpochMillis", 0)
       IN  /\ auth_token_cache' = [auth_token_cache EXCEPT !.expires_at = expires_at]
           /\ request' = [endpoint |-> "GET /tts/auth-test", data |-> EmptyDict]
           /\ response' = AuthTestResponse(auth_token_cache.token, expires_at)
           /\ upstream' = <<Call("POST", MURF_AUTH_URL, AuthHeaders, None, reply)>>
    /\ auth_calls' = [auth_calls EXCEPT ![t] = Idle]
    /\ UNCHANGED <<token_response, MURF_API_KEY, json_error_is_request_exception, now>>

NextRace ==
    \/ Tick
    \/ \E t \in Threads : AuthBegin(t)
    \/ \E t \in Threads : \E reply \in AuthReplies(now) : AuthReceive(t, reply)
    \/ \E t \in Threads : AuthStoreExpiry(t)

SpecRace == Init /\ [][NextRace]_vars

---------------------------------------------------------------------------
(* The synthesis path as a function of its inputs: a POST /tts request has  *)
(* arrived with any body, and the handler answers it, the upstream replying *)
(* in any way.  The handler reads nothing an earlier request wrote.         *)

InitSynth ==
    /\ MURF_API_KEY \in ApiKeys
    /\ json_error_is_request_exception \in BOOLEAN
    /\ auth_token_cache = [token |-> None, expires_at |-> 0]
    /\ now = 0
    /\ request \in {[endpoint |-> "POST /tts", data |-> d] : d \in TtsRequests}
    /\ response = NoResponse
    /\ upstream = <<>>
    /\ auth_calls = [t \in Threads |-> Idle]
    /\ token_response = EmptyDict

Answered == response.status # 0

NextSynth ==
    /\ ~Answered
    /\ \E reply \in TtsReplies : text_to_speech(request.data, reply)

SpecSynth == InitSynth /\ [][NextSynth]_vars

---------------------------------------------------------------------------
(* Properties of the synthesis path, checked under SpecSynth *)

\* the request body carries a `text` with a character that is not whitespace
HasSpokenText ==
    /\ "text" \in DOMAIN request.data
    /\ \E i \in DOMAIN request.data["text"] : request.data["text"][i] \notin {" ", "\t"}

KeyConfigured == MURF_API_KEY \notin {None, ""}

\* the one upstream call of the request answered last, and its reply
TheCall == upstream[1]
TheReply == upstream[1].reply
GotResponse == Len(upstream) = 1 /\ "status_code" \in DOMAIN TheReply

Failure(status) == response.status = status /\ response.body.success = FALSE

C3_UpstreamErrorMirrored ==
    (Answered /\ KeyConfigured /\ HasSpokenText) =>
        /\ Len(upstream) = 1
        /\ (GotResponse /\ TheReply.status_code # 200) =>
              /\ Failure(TheReply.status_code)
              /\ {"status_code", "details"} \subseteq DOMAIN response.body
              /\ response.body.status_code = TheReply.status_code
              /\ response.body.details =
                    IF TheReply.text.json_type = "none" THEN TheReply.text
                    ELSE TheReply.text.members

C3_Witness ==
    /\ Answered /\ GotResponse /\ TheReply.status_code = 429
    /\ TheReply.text.json_type = "object" /\ DOMAIN TheReply.text.members # {}
    /\ Failure(429) /\ response.body.details = TheReply.text.members

AudioUrlFields == <<"audioFile", "audio_url", "url">>

\* the first of the candidate fields that the body has at all, and the first whose
\* value is not empty (0 when there is none)
FirstPresent(d) ==
    IF \E i \in 1..3 : AudioUrlFields[i] \in DOMAIN d
    THEN CHOOSE i \in 1..3 : /\ AudioUrlFields[i] \in DOMAIN d
                             /\ \A j \in 1..(i - 1) : AudioUrlFields[j] \notin DOMAIN d
    ELSE 0

NonEmptyAt(d, i) == AudioUrlFields[i] \in DOMAIN d /\ d[AudioUrlFields[i]] # ""

FirstNonEmpty(d) ==
    IF \E i \in 1..3 : NonEmptyAt(d, i)
    THEN CHOOSE i \in 1..3 : NonEmptyAt(d, i) /\ \A j \in 1..(i - 1) : ~NonEmptyAt(d, j)
    ELSE 0

GotObject200 ==
    GotResponse /\ TheReply.status_code = 200 /\ TheReply.text.json_type = "object"

LowerCase == {"a", "m", "p", "v", "w"}

\* the success response echoes what was sent upstream; the format is the request's
\* (MP3 when it has none) in upper case; characters_used is upstream's, or 0
SuccessEchoes ==
    LET sent == TheCall.json
        asked == IF "format" \in DOMAIN request.data THEN request.data["format"]
                 ELSE <<"M", "P", "3">>
        d == TheReply.text.members
    IN  /\ response.body.voice_used = sent.voiceId
        /\ response.body.format = sent.audioFormat
        /\ Len(sent.audioFormat) = Len(asked)
        /\ \A i \in DOMAIN asked :
              /\ sent.audioFormat[i] \notin LowerCase
              /\ asked[i] \notin LowerCase => sent.audioFormat[i] = asked[i]
        /\ response.body.characters_used =
              IF "charactersUsed" \in DOMAIN d THEN d["charactersUsed"] ELSE 0

C5_NoAudioUrlIs500 ==
    (/\ Answered /\ GotResponse /\ TheReply.status_code = 200
     /\ \/ TheReply.text.json_type # "object"
        \/ DOMAIN TheReply.text.members \cap {"audioFile", "audio_url", "url"} = {})
    => Failure(500)

C5_Witness ==
    /\ Answered /\ GotObject200
    /\ TheReply.text.members = [charactersUsed |-> 42]
    /\ Failure(500) /\ response.body.error = <<"Audio URL not found in Murf response">>

ReportedAsNetworkError ==
    /\ "error" \in DOMAIN response.body
    /\ response.body.error[1] = "Network error calling Murf API: "

\* C7: a transport failure of the synthesis call is answered 500 as a network error,
\* and nothing else is: a response that was received is never reported as one.
C7_OnlyTransportIsNetworkError ==
    (Answered /\ Len(upstream) = 1) =>
        /\ "raised" \in DOMAIN TheReply => (Failure(500) /\ ReportedAsNetworkError)
        /\ ReportedAsNetworkError => "raised" \in DOMAIN TheReply

\* C8: the rate sent upstream is the request's speech_rate, 0 when it has none; a value
\* outside [-50, 50] goes through unchanged.
C8_RatePassedThrough ==
    (Answered /\ KeyConfigured /\ HasSpokenText) =>
        /\ Len(upstream) = 1
        /\ TheCall.json.rate =
              IF "speech_rate" \in DOMAIN request.data THEN request.data["speech_rate"] ELSE 0

C8_Witness ==
    /\ Answered /\ Len(upstream) = 1
    /\ "speech_rate" \in DOMAIN request.data
    /\ request.data["speech_rate"] = 51 /\ TheCall.json.rate = 51

---------------------------------------------------------------------------
(* Properties of the whole service, checked under Spec *)

\* a step in which a request is handled (the clock stands still), and one in which
\* test_auth runs get_murf_auth_token
HandlerStep == now' = now
AuthTokenStep ==
    HandlerStep /\ request'.endpoint = "GET /tts/auth-test" /\ KeyConfigured

CacheHoldsToken == auth_token_cache.token \notin {None, ""}

\* C1: a call made at a time `now` with a token cached and now + 60000 < its expiry
\* returns that token, leaves the cache alone and issues no upstream request; a call
\* made with no token cached, or with expiry <= now + 60000, issues exactly one
\* upstream auth request.
C1_TokenReuse ==
    [][AuthTokenStep =>
          IF CacheHoldsToken /\ now + 60000 < auth_token_cache.expires_at
          THEN /\ upstream' = <<>>
               /\ response'.status = 200
               /\ response'.body.token_preview[1] = auth_token_cache.token
               /\ auth_token_cache' = auth_token_cache
          ELSE /\ Len(upstream') = 1
               /\ upstream'[1].url = MURF_AUTH_URL]_vars

\* a cached token, still more than the buffer away from its expiry, is served again
C1_Witness ==
    /\ request.endpoint = "GET /tts/auth-test" /\ upstream = <<>>
    /\ response.status = 200 /\ response.body.token_preview[1] = "tokA"
    /\ auth_token_cache.token = "tokA" /\ now > 0
    /\ auth_token_cache.expires_at = now + 60000 + TickMs

\* the upstream call failed: no response, or a status other than 200
UpstreamFailed(reply) == "raised" \in DOMAIN reply \/ reply.status_code # 200

\* C6: when get_murf_auth_token fails on an upstream status other than 200 or on a
\* transport failure, the cached token and expiry are what they were before the call.
C6_FailureKeepsCache ==
    [][(AuthTokenStep /\ Len(upstream') = 1 /\ UpstreamFailed(upstream'[1].reply)) =>
          /\ auth_token_cache' = auth_token_cache
          /\ response'.status = 401 /\ response'.body.success = FALSE]_vars

\* a stale token is still stored after a refresh that failed
C6_Witness ==
    /\ request.endpoint = "GET /tts/auth-test" /\ Len(upstream) = 1
    /\ "status_code" \in DOMAIN upstream[1].reply /\ upstream[1].reply.status_code = 500
    /\ response.status = 401
    /\ auth_token_cache.token = "tokB" /\ auth_token_cache.expires_at <= now + 60000

\* C9: a request issues at most one upstream call; when that call fails the request is
\* answered with the failure, and nothing a later request reads (the cache, the
\* configuration) is changed.
C9_NoRetry ==
    [][HandlerStep =>
          /\ Len(upstream') <= 1
          /\ (Len(upstream') = 1 /\ UpstreamFailed(upstream'[1].reply)) =>
                /\ response'.body.success = FALSE
                /\ response'.status >= 400
                /\ auth_token_cache' = auth_token_cache
                /\ MURF_API_KEY' = MURF_API_KEY
                /\ json_error_is_request_exception' = json_error_is_request_exception]_vars

C9_Witness ==
    /\ request.endpoint = "GET /tts/auth-test" /\ Len(upstream) = 1
    /\ "raised" \in DOMAIN upstream[1].reply
    /\ response.status = 401 /\ response.body.success = FALSE
    /\ auth_token_cache.token = "tokA"

\* C10: with no API key configured no endpoint calls upstream; key-test answers
\* success:false, and POST /tts, voices and auth-test answer 500 with success:false.
C10_NoKeyNoUpstream ==
    (~KeyConfigured /\ request.endpoint # "none") =>
        /\ upstream = <<>>
        /\ request.endpoint = "GET /tts/key-test" => response.body.success = FALSE
        /\ request.endpoint \in {"POST /tts", "GET /tts/voices", "GET /tts/auth-test"} =>
              Failure(500)

C10_Witness ==
    /\ MURF_API_KEY = "" /\ request.endpoint = "GET /tts/voices"
    /\ Failure(500) /\ upstream = <<>>

\* C12: only GET /tts/auth-test writes the token cache; every other endpoint, POST /tts
\* included, leaves token and expiry as they are, and the synthesis call carries the
\* static API key in its api-key header and the cached token in no header.
C12_CacheOnlyOnAuthTest ==
    [][/\ auth_token_cache' # auth_token_cache =>
             (HandlerStep /\ request'.endpoint = "GET /tts/auth-test")
       /\ (HandlerStep /\ request'.endpoint = "POST /tts" /\ upstream' # <<>>) =>
             LET headers == upstream'[1].headers
             IN  /\ upstream'[1].url = MURF_API_URL
                 /\ "api-key" \in DOMAIN headers
                 /\ headers["api-key"] = MURF_API_KEY
                 /\ "Authorization" \notin DOMAIN headers
                 /\ CacheHoldsToken =>
                       \A h \in DOMAIN headers : headers[h] # auth_token_cache.token]_vars

\* a synthesis call made while a token is cached: it carries the API key, and the
\* token is still cached
C12_Witness ==
    /\ request.endpoint = "POST /tts" /\ Len(upstream) = 1
    /\ upstream[1].headers["api-key"] = "ap2_key"
    /\ response.status = 200
    /\ auth_token_cache.token = "tokA" /\ auth_token_cache.expires_at > now + 60000

---------------------------------------------------------------------------
(* Properties of the cache under concurrent calls, checked under SpecRace *)

AllIdle == \A t \in Threads : auth_calls[t].pc = "idle"

\* the expiry that the response the cached token came from declared (0 when it
\* declared none)
DeclaredExpiry ==
    IF "expiryInEpochMillis" \in DOMAIN token_response
    THEN token_response["expiryInEpochMillis"] ELSE 0

\* the call answered last got an auth response that carries a token and an expiry,
\* and the token is not the cached one
LastResponseIssuedAnotherToken ==
    /\ Len(upstream) = 1 /\ upstream[1].url = MURF_AUTH_URL
    /\ "status_code" \in DOMAIN upstream[1].reply
    /\ upstream[1].reply.status_code = 200
    /\ upstream[1].reply.text.json_type = "object"
    /\ {"token", "expiryInEpochMillis"} \subseteq DOMAIN upstream[1].reply.text.members
    /\ upstream[1].reply.text.members["token"] # auth_token_cache.token

\* C11: if a token is cached, the cached expiry is the one upstream declared in the
\* response that issued this token.  The claim is of every reachable state; it is
\* stated here of the states in which no call is in progress, the response the token
\* came from declared an expiry and the response received last issued another token
\* with an expiry: there an interleaving of two refreshes has left the token of one
\* response with the expiry of the other.
C11_TokenAndExpiryFromOneResponse ==
    (/\ AllIdle /\ CacheHoldsToken
     /\ "expiryInEpochMillis" \in DOMAIN token_response
     /\ LastResponseIssuedAnotherToken)
    => auth_token_cache.expires_at = DeclaredExpiry

=============================================================================
